---- MODULE Spec2Model ----
\* A model of bf-jit: the two IR builders (create_program of interp-jit.ts and
\* create_and_optimize_program of interp-aot.ts), the loop rewriter
\* tryOptimizeLoop, the AOT code generator AOTCompiler.compile together with
\* the routine it emits, and the hot-loop interpreter Interpreter.run.
\*
\* Indices (IR positions, pc, cc, bracket operands) are 0-based as in the
\* source; At(s, k) reads the k-th element of a TLA+ sequence 0-based.
EXTENDS Integers, Sequences, FiniteSets, TLC

\* ------------------------------------------------------------------ bounds
\* number of tape cells of the model (30000 in the source: new Uint8Array(30000))
TapeSize == 3
\* longest enumerated source of the execution specification
MaxSrcLen == 3
\* longest enumerated source of the IR-builder specification
MaxLexLen == 4
\* arrivals at one LoopOpen that are followed (a loop count grows without end
\* when a program loops for ever through a LoopOpen)
HotCap == 12
\* bytes of output that are followed (a program may write for ever)
OutCap == 6

\* -------------------------------------------------------- program constants
CharLT == 60
CharGT == 62
CharADD == 43
CharCOMMA == 44
CharSUB == 45
CharDOT == 46
CharLB == 91
CharRB == 93
HOT_THRESHOLD == 10
CellMod == 256

Whitespace == {9, 10, 13, 32}

At(s, k) == s[k + 1]

\* new Op(type, operand = 1, targets = null, jitCount = 0)
NoTargets == << >>
Op(type, operand, targets) ==
    [type |-> type, operand |-> operand, targets |-> targets, jitCount |-> 0]

\* opMap: the operator of a byte, "" when the byte has none (undefined)
opMap(c) ==
    CASE c = CharLT -> "LEFT"
      [] c = CharGT -> "RIGHT"
      [] c = CharADD -> "ADD"
      [] c = CharSUB -> "SUB"
      [] c = CharLB -> "OPEN"
      [] c = CharRB -> "CLOSE"
      [] c = CharDOT -> "OUTPUT"
      [] c = CharCOMMA -> "INPUT"
      [] OTHER -> ""

repeatableOps == {"ADD", "SUB", "LEFT", "RIGHT"}

\* The inner while loop of both builders, started at position i (0-based)
\* with count = 1: it passes whitespace and bytes of the same operator and
\* stops at the first other byte or at the end; yields <<i, count>>.
RunStop(bytes, i, opType) ==
    LET stops == {j \in i..(Len(bytes) - 1) :
                     /\ (At(bytes, j) % 256) \notin Whitespace
                     /\ opMap(At(bytes, j) % 256) # opType}
    IN IF stops = {} THEN Len(bytes)
       ELSE CHOOSE j \in stops : \A k \in stops : j <= k
\* CountRun that counts every byte the inner loop passes, blanks included
CountRun_Span(bytes, i, opType, count) ==
    LET stop == RunStop(bytes, i, opType) IN << stop, count + (stop - i) >>
CountRun(bytes, i, opType, count) ==
    LET stop == RunStop(bytes, i, opType) IN
    << stop,
       count + Cardinality({j \in i..(stop - 1) : opMap(At(bytes, j) % 256) = opType}) >>

\* PushRun without the merge into the previous op: every run is pushed
PushRun_NoMerge(prog, opType, count) == Append(prog, Op(opType, count, NoTargets))

\* "merge with the previous op of the same type, else push"
PushRun(prog, opType, count) ==
    IF Len(prog) > 0 /\ prog[Len(prog)].type = opType
    THEN [prog EXCEPT ![Len(prog)].operand = @ + count]
    ELSE Append(prog, Op(opType, count, NoTargets))

\* prog.push(new Op(CLOSE)); prog[openPos].operand = prog.length - 1;
\* prog[prog.length - 1].operand = openPos
LinkClose(prog, openPos) ==
    LET p == Append(prog, Op("CLOSE", 1, NoTargets))
        q == [p EXCEPT ![openPos + 1].operand = Len(p) - 1]
    IN [q EXCEPT ![Len(q)].operand = openPos]

\* ------------------------------------------------ create_program (mode E)
RECURSIVE create_program_loop(_, _, _, _)
create_program_loop(bytes, i, prog, bracketStack) ==
    IF i >= Len(bytes) THEN prog
    ELSE LET c == At(bytes, i) % 256
             opType == opMap(c)
         IN
         IF c \in Whitespace THEN create_program_loop(bytes, i + 1, prog, bracketStack)
         ELSE IF opType = "" THEN create_program_loop(bytes, i + 1, prog, bracketStack)
         ELSE IF opType \in repeatableOps THEN
              LET r == CountRun(bytes, i + 1, opType, 1) IN
              create_program_loop(bytes, r[1], PushRun(prog, opType, r[2]), bracketStack)
         ELSE IF opType = "OPEN" THEN
              LET p == Append(prog, Op("OPEN", 1, NoTargets)) IN
              create_program_loop(bytes, i + 1, p, Append(bracketStack, Len(p) - 1))
         ELSE IF opType = "CLOSE" THEN
              IF Len(bracketStack) > 0
              THEN LET openPos == bracketStack[Len(bracketStack)] IN
                   create_program_loop(bytes, i + 1, LinkClose(prog, openPos),
                                       SubSeq(bracketStack, 1, Len(bracketStack) - 1))
              ELSE create_program_loop(bytes, i + 1, prog, bracketStack)
         ELSE create_program_loop(bytes, i + 1,
                                  Append(prog, Op(opType, 1, NoTargets)), bracketStack)

create_program(bytes) == create_program_loop(bytes, 0, << >>, << >>)

\* ------------------------------------------------------- tryOptimizeLoop
\* memChanges is a Map<number, number>; it is modelled as the sequence of its
\* <<offset, delta>> entries in insertion order (the order Array.from yields).
MapHas(m, k) == \E j \in 1..Len(m) : m[j][1] = k
MapGet(m, k) == IF MapHas(m, k) THEN m[CHOOSE j \in 1..Len(m) : m[j][1] = k][2] ELSE 0
MapSet(m, k, v) ==
    IF MapHas(m, k)
    THEN [j \in 1..Len(m) |-> IF m[j][1] = k THEN <<k, v>> ELSE m[j]]
    ELSE Append(m, <<k, v>>)
MapDelete(m, k) == SelectSeq(m, LAMBDA e : e[1] # k)

\* the for loop over body[1..]: yields [pos, memChanges, isValid]
RECURSIVE WalkBody(_, _, _, _)
WalkBody(body, i, pos, memChanges) ==
    IF i >= Len(body) THEN [pos |-> pos, memChanges |-> memChanges, isValid |-> TRUE]
    ELSE LET op == At(body, i) IN
         CASE op.type = "LEFT" -> WalkBody(body, i + 1, pos - op.operand, memChanges)
           [] op.type = "RIGHT" -> WalkBody(body, i + 1, pos + op.operand, memChanges)
           [] op.type = "ADD" ->
                WalkBody(body, i + 1, pos,
                         MapSet(memChanges, pos, MapGet(memChanges, pos) + op.operand))
           [] op.type = "SUB" ->
                WalkBody(body, i + 1, pos,
                         MapSet(memChanges, pos, MapGet(memChanges, pos) - op.operand))
           [] OTHER -> [pos |-> pos, memChanges |-> memChanges, isValid |-> FALSE]

NoOp == [type |-> "", operand |-> 0, targets |-> NoTargets, jitCount |-> 0]

\* BalancedLoop that keeps the offsets whose delta is 0 among the targets
BalancedLoop_KeepZeroDelta(body) ==
    LET w == WalkBody(body, 1, 0, << >>) IN
    IF w.isValid /\ w.pos = 0
    THEN LET m == MapDelete(w.memChanges, 0) IN
         IF Len(m) = 0 THEN Op("ZERO", 1, NoTargets)
         ELSE LET targets == [j \in 1..Len(m) |->
                                 [offset |-> m[j][1], factor |-> m[j][2]]]
              IN IF Len(targets) = 1 /\ targets[1].factor = 1
                 THEN Op("COPY", targets[1].offset, NoTargets)
                 ELSE Op("MULTIPLY", 0, targets)
    ELSE NoOp

\* the balanced-decrement branch, entered when body[0] is SUB 1
BalancedLoop(body) ==
    LET w == WalkBody(body, 1, 0, << >>) IN
    IF w.isValid /\ w.pos = 0
    THEN LET m == MapDelete(w.memChanges, 0) IN
         IF Len(m) = 0 THEN Op("ZERO", 1, NoTargets)
         ELSE LET nz == SelectSeq(m, LAMBDA e : e[2] # 0)
                  targets == [j \in 1..Len(nz) |->
                                 [offset |-> nz[j][1], factor |-> nz[j][2]]]
              IN IF Len(targets) = 1 /\ targets[1].factor = 1
                 THEN Op("COPY", targets[1].offset, NoTargets)
                 ELSE Op("MULTIPLY", 0, targets)
    ELSE NoOp

\* tryOptimizeLoop(body): the replacing op, NoOp for null
tryOptimizeLoop(body) ==
    IF Len(body) = 0 THEN NoOp
    ELSE IF Len(body) = 1 /\ body[1].type \in {"SUB", "ADD"} /\ body[1].operand = 1
         THEN Op("ZERO", 1, NoTargets)
    ELSE IF body[1].type = "SUB" /\ body[1].operand = 1
         THEN BalancedLoop(body)
    ELSE NoOp

\* ------------------------------------ create_and_optimize_program (mode D)
\* CloseLoop that cuts the loop body only and keeps the LoopOpen before the
\* replacing op
CloseLoop_KeepOpen(prog, openPos) ==
    LET loopBody == SubSeq(prog, openPos + 2, Len(prog))
        optimized == tryOptimizeLoop(loopBody)
    IN IF optimized # NoOp
       THEN Append(SubSeq(prog, 1, openPos + 1), optimized)
       ELSE LinkClose(prog, openPos)

\* the CLOSE branch with a non-empty bracket stack
CloseLoop(prog, openPos) ==
    LET loopBody == SubSeq(prog, openPos + 2, Len(prog))
        optimized == tryOptimizeLoop(loopBody)
    IN IF optimized # NoOp
       THEN Append(SubSeq(prog, 1, openPos), optimized)
       ELSE LinkClose(prog, openPos)

RECURSIVE create_and_optimize_program_loop(_, _, _, _)
create_and_optimize_program_loop(bytes, i, prog, bracketStack) ==
    IF i >= Len(bytes) THEN prog
    ELSE LET c == At(bytes, i) % 256
             opType == opMap(c)
         IN
         IF c \in Whitespace
         THEN create_and_optimize_program_loop(bytes, i + 1, prog, bracketStack)
         ELSE IF opType = ""
         THEN create_and_optimize_program_loop(bytes, i + 1, prog, bracketStack)
         ELSE IF opType \in repeatableOps THEN
              LET r == CountRun(bytes, i + 1, opType, 1) IN
              create_and_optimize_program_loop(bytes, r[1],
                                               PushRun(prog, opType, r[2]), bracketStack)
         ELSE IF opType = "OPEN" THEN
              LET p == Append(prog, Op("OPEN", 1, NoTargets)) IN
              create_and_optimize_program_loop(bytes, i + 1, p,
                                               Append(bracketStack, Len(p) - 1))
         ELSE IF opType = "CLOSE" THEN
              IF Len(bracketStack) > 0
              THEN LET openPos == bracketStack[Len(bracketStack)] IN
                   create_and_optimize_program_loop(
                       bytes, i + 1, CloseLoop(prog, openPos),
                       SubSeq(bracketStack, 1, Len(bracketStack) - 1))
              ELSE create_and_optimize_program_loop(bytes, i + 1, prog, bracketStack)
         ELSE create_and_optimize_program_loop(
                  bytes, i + 1, Append(prog, Op(opType, 1, NoTargets)), bracketStack)

create_and_optimize_program(bytes) ==
    create_and_optimize_program_loop(bytes, 0, << >>, << >>)

\* ---------------------------------------------------- AOTCompiler.compile
\* The emitted routine is modelled as the sequence of its statements:
\*   addc   cells[cc + off] += val;
\*   movecc cc += val;                                  (flushOffset)
\*   out    process.stdout.write(String.fromCharCode(cells[cc + off]));
\*   in     const b = Buffer.alloc(1); fs.readSync(..., b, ...); cells[cc] = b[0];
\*   zero   cells[cc + off] = 0;
\*   load   const v = cells[cc + off];
\*   addmul cells[cc + off] += v * val;
\*   while  while (cells[cc] !== 0) {
\*   end    }
Stmt(k, off, val) == [k |-> k, off |-> off, val |-> val]

\* getMemoryAccess that leaves this.offset out of the index expression
getMemoryAccess_NoPending(thisOffset, offset) == offset

\* getMemoryAccess(offset): the index expression is cc + (this.offset + offset)
getMemoryAccess(thisOffset, offset) == thisOffset + offset

\* flushOffset: the statements it pushes (this.offset becomes 0)
flushOffset(thisOffset) ==
    IF thisOffset # 0 THEN << Stmt("movecc", 0, thisOffset) >> ELSE << >>

\* the statements of one MULTIPLY op
MultiplyStmts(thisOffset, targets) ==
    << Stmt("load", getMemoryAccess(thisOffset, 0), 0) >>
    \o [j \in 1..Len(targets) |->
           Stmt("addmul", getMemoryAccess(thisOffset, targets[j].offset),
                targets[j].factor)]
    \o << Stmt("zero", getMemoryAccess(thisOffset, 0), 0) >>

\* CompileOp whose CLOSE case pushes "}" without flushOffset
CompileOp_CloseNoFlush(op, thisOffset) ==
    CASE op.type = "ADD" ->
           << << Stmt("addc", getMemoryAccess(thisOffset, 0), op.operand) >>, thisOffset >>
      [] op.type = "SUB" ->
           << << Stmt("addc", getMemoryAccess(thisOffset, 0), -op.operand) >>, thisOffset >>
      [] op.type = "LEFT" -> << << >>, thisOffset - op.operand >>
      [] op.type = "RIGHT" -> << << >>, thisOffset + op.operand >>
      [] op.type = "OUTPUT" ->
           << << Stmt("out", getMemoryAccess(thisOffset, 0), 0) >>, thisOffset >>
      [] op.type = "INPUT" ->
           << flushOffset(thisOffset) \o << Stmt("in", 0, 0) >>, 0 >>
      [] op.type = "ZERO" ->
           << << Stmt("zero", getMemoryAccess(thisOffset, 0), 0) >>, thisOffset >>
      [] op.type = "MULTIPLY" -> << MultiplyStmts(thisOffset, op.targets), thisOffset >>
      [] op.type = "COPY" ->
           << << Stmt("load", getMemoryAccess(thisOffset, 0), 0),
                 Stmt("addmul", getMemoryAccess(thisOffset, op.operand), 1),
                 Stmt("zero", getMemoryAccess(thisOffset, 0), 0) >>, thisOffset >>
      [] op.type = "OPEN" ->
           << flushOffset(thisOffset) \o << Stmt("while", 0, 0) >>, 0 >>
      [] op.type = "CLOSE" -> << << Stmt("end", 0, 0) >>, thisOffset >>
      [] OTHER -> << << >>, thisOffset >>

\* one iteration of "for (const op of prog)": yields <<statements, this.offset>>
CompileOp(op, thisOffset) ==
    CASE op.type = "ADD" ->
           << << Stmt("addc", getMemoryAccess(thisOffset, 0), op.operand) >>, thisOffset >>
      [] op.type = "SUB" ->
           << << Stmt("addc", getMemoryAccess(thisOffset, 0), -op.operand) >>, thisOffset >>
      [] op.type = "LEFT" -> << << >>, thisOffset - op.operand >>
      [] op.type = "RIGHT" -> << << >>, thisOffset + op.operand >>
      [] op.type = "OUTPUT" ->
           << << Stmt("out", getMemoryAccess(thisOffset, 0), 0) >>, thisOffset >>
      [] op.type = "INPUT" ->
           << flushOffset(thisOffset) \o << Stmt("in", 0, 0) >>, 0 >>
      [] op.type = "ZERO" ->
           << << Stmt("zero", getMemoryAccess(thisOffset, 0), 0) >>, thisOffset >>
      [] op.type = "MULTIPLY" -> << MultiplyStmts(thisOffset, op.targets), thisOffset >>
      [] op.type = "COPY" ->
           << << Stmt("load", getMemoryAccess(thisOffset, 0), 0),
                 Stmt("addmul", getMemoryAccess(thisOffset, op.operand), 1),
                 Stmt("zero", getMemoryAccess(thisOffset, 0), 0) >>, thisOffset >>
      [] op.type = "OPEN" ->
           << flushOffset(thisOffset) \o << Stmt("while", 0, 0) >>, 0 >>
      [] op.type = "CLOSE" ->
           << flushOffset(thisOffset) \o << Stmt("end", 0, 0) >>, 0 >>
      [] OTHER -> << << >>, thisOffset >>

RECURSIVE CompileFrom(_, _, _, _)
CompileFrom(prog, i, thisOffset, code) ==
    IF i >= Len(prog) THEN code \o flushOffset(thisOffset)
    ELSE LET r == CompileOp(At(prog, i), thisOffset) IN
         CompileFrom(prog, i + 1, r[2], code \o r[1])

\* compile(prog): the statements between "let cc = 0;" and "return cc;"
compile(prog) == CompileFrom(prog, 0, 0, << >>)

\* the index of the op whose case pushed each statement of compile(prog); the
\* statement of the final flushOffset gets Len(prog)
RECURSIVE StmtOpsFrom(_, _, _, _)
StmtOpsFrom(prog, i, thisOffset, ops) ==
    IF i >= Len(prog) THEN ops \o [j \in 1..Len(flushOffset(thisOffset)) |-> Len(prog)]
    ELSE LET r == CompileOp(At(prog, i), thisOffset) IN
         StmtOpsFrom(prog, i + 1, r[2], ops \o [j \in 1..Len(r[1]) |-> i])
StmtOps(prog) == StmtOpsFrom(prog, 0, 0, << >>)
\* the op of statement s (0-based); -1 before the first, Len(prog) at "return cc;"
OpOfStmt(prog, s) ==
    IF s < 0 THEN -1
    ELSE IF s >= Len(StmtOps(prog)) THEN Len(prog) ELSE At(StmtOps(prog), s)

\* the signed sum of the operands of the LEFT/RIGHT ops at indices a..b-1
RECURSIVE MoveSum(_, _, _)
MoveSum(prog, a, b) ==
    IF a >= b THEN 0
    ELSE (IF At(prog, a).type = "RIGHT" THEN At(prog, a).operand
          ELSE IF At(prog, a).type = "LEFT" THEN -At(prog, a).operand ELSE 0)
         + MoveSum(prog, a + 1, b)
\* the moves of the IR that lie between statement s - 1 and statement s: the
\* ops that control passes, without a statement of their own, on the way to s
MovesInto(prog, s) == MoveSum(prog, OpOfStmt(prog, s - 1) + 1, OpOfStmt(prog, s))
\* MovesInto for every statement of the routine and for "return cc;"
MovesTable(prog) == [t \in 1..(Len(StmtOps(prog)) + 1) |-> MovesInto(prog, t - 1)]

\* eval of the joined text succeeds when every "while (...) {" has its "}"
\* (a "}" is only ever emitted for a linked CLOSE, so no "}" comes too early)
CountKind(code, k) == Cardinality({j \in 1..Len(code) : code[j].k = k})
EvalOk(code) == CountKind(code, "while") = CountKind(code, "end")

\* the "}" of the "while" at statement w (0-based), and back
RECURSIVE BlockEnd(_, _, _)
BlockEnd(code, j, depth) ==
    IF At(code, j).k = "while" THEN BlockEnd(code, j + 1, depth + 1)
    ELSE IF At(code, j).k = "end"
         THEN IF depth = 1 THEN j ELSE BlockEnd(code, j + 1, depth - 1)
    ELSE BlockEnd(code, j + 1, depth)

RECURSIVE BlockStart(_, _, _)
BlockStart(code, j, depth) ==
    IF At(code, j).k = "end" THEN BlockStart(code, j - 1, depth + 1)
    ELSE IF At(code, j).k = "while"
         THEN IF depth = 1 THEN j ELSE BlockStart(code, j - 1, depth - 1)
    ELSE BlockStart(code, j - 1, depth)

\* ------------------------------------------------- Uint8Array, JS numbers
\* A JS number is <<n>>; << >> stands for undefined / NaN.
NaN == << >>
InTape(idx) == idx >= 0 /\ idx < TapeSize

\* cells[idx]: undefined outside the array
Load(cells, idx) == IF InTape(idx) THEN << cells[idx] >> ELSE NaN

\* ToUint8 as a Uint8ClampedArray would store: saturating instead of wrapping
ToUint8_Clamped(x) ==
    IF x = NaN THEN 0 ELSE IF x[1] > 255 THEN 255 ELSE IF x[1] < 0 THEN 0 ELSE x[1]

\* ToUint8 of the stored value: NaN becomes 0, integers wrap modulo 256
ToUint8(x) == IF x = NaN THEN 0 ELSE x[1] % CellMod

\* Store with the index clamped to the tape instead of the store being ignored
Store_Clamped(cells, idx, x) ==
    [cells EXCEPT ![IF idx < 0 THEN 0 ELSE IF idx >= TapeSize THEN TapeSize - 1 ELSE idx]
                      = ToUint8(x)]

\* cells[idx] = x: a store outside the array is ignored
Store(cells, idx, x) ==
    IF InTape(idx) THEN [cells EXCEPT ![idx] = ToUint8(x)] ELSE cells

NumAdd(x, y) == IF x = NaN \/ y = NaN THEN NaN ELSE << x[1] + y[1] >>
NumMul(x, y) == IF x = NaN \/ y = NaN THEN NaN ELSE << x[1] * y[1] >>

\* x & 0xFF on the integers that occur (|x| < 2^31)
And255(x) == x % CellMod

\* process.stdout.write(String.fromCharCode(x)): the bytes written. The string
\* holds the code unit ToUint16(x) (0 for undefined) and is written as UTF-8.
Utf8(u) == IF u < 128 THEN << u >> ELSE << 192 + (u \div 64), 128 + (u % 64) >>
WriteChar(x) == Utf8(IF x = NaN THEN 0 ELSE x[1] % 65536)

\* fs.readSync(process.stdin.fd, buf, 0, 1, null) into Buffer.alloc(1):
\* buf[0] is the next byte, or stays 0 at end of input
ReadByte(inp) == IF Len(inp) > 0 THEN Head(inp) ELSE 0
ReadRest(inp) == IF Len(inp) > 0 THEN Tail(inp) ELSE inp

\* ---------------------------------------------- JITCompiler.analyzeLoop
NoLoop == [type |-> "", offset |-> 0, targets |-> << >>]
CompiledLoop(type, offset, targets) == [type |-> type, offset |-> offset, targets |-> targets]

\* while (depth > 0 && loopEnd < prog.length) {...; loopEnd++}: the final loopEnd
RECURSIVE FindLoopEnd(_, _, _)
FindLoopEnd(prog, loopEnd, depth) ==
    IF depth > 0 /\ loopEnd < Len(prog)
    THEN FindLoopEnd(prog, loopEnd + 1,
                     IF At(prog, loopEnd).type = "OPEN" THEN depth + 1
                     ELSE IF At(prog, loopEnd).type = "CLOSE" THEN depth - 1
                     ELSE depth)
    ELSE loopEnd

\* prog.slice(loopStart, loopEnd) with loopEnd already decremented
LoopBody(prog, startPc) ==
    LET loopStart == startPc + 1
        loopEnd == FindLoopEnd(prog, loopStart, 1) - 1
    IN SubSeq(prog, loopStart + 1, loopEnd)

analyzeLoop(prog, startPc) ==
    LET body == LoopBody(prog, startPc) IN
    IF Len(body) = 1 /\ body[1].type \in {"SUB", "ADD"} /\ body[1].operand = 1
    THEN CompiledLoop("clear", 0, << >>)
    ELSE IF Len(body) = 4
            /\ body[1].type = "SUB" /\ body[1].operand = 1
            /\ body[2].type = "RIGHT"
            /\ body[3].type = "ADD" /\ body[3].operand = 1
            /\ body[4].type = "LEFT"
    THEN CompiledLoop("move", body[2].operand, << >>)
    ELSE IF Len(body) = 7
            /\ body[1].type = "LEFT" /\ body[2].type = "SUB"
            /\ body[3].type = "RIGHT" /\ body[4].type = "SUB"
            /\ body[5].type = "LEFT" /\ body[6].type = "ADD"
            /\ body[7].type = "RIGHT"
    THEN CompiledLoop("addmulti", 0,
                      << [offset |-> -1, amount |-> -1],
                         [offset |-> 0, amount |-> -1],
                         [offset |-> -1, amount |-> 1] >>)
    ELSE IF Len(body) = 1 /\ body[1].type = "RIGHT" THEN CompiledLoop("scan", 1, << >>)
    ELSE IF Len(body) = 1 /\ body[1].type = "LEFT" THEN CompiledLoop("scan", -1, << >>)
    ELSE IF Len(body) = 1 /\ body[1].type \in {"RIGHT", "LEFT"} /\ body[1].operand > 1
    THEN CompiledLoop("search",
                      IF body[1].type = "RIGHT" THEN body[1].operand ELSE -body[1].operand,
                      << >>)
    ELSE NoLoop

\* ---------------------------------------- Interpreter.execCompiledLoop
maxCc == TapeSize - 1
\* const maxIterations = 30000, the length of the tape
maxIterations == TapeSize

\* the while loop of the scan and search cases: the final newCc
RECURSIVE ScanLoop(_, _, _, _)
ScanLoop(cells, newCc, offset, iterations) ==
    IF iterations < maxIterations /\ newCc >= 0 /\ newCc <= maxCc /\ cells[newCc] # 0
    THEN ScanLoop(cells, newCc + offset, offset, iterations + 1)
    ELSE newCc

\* ScanCc without the clamp after the loop
ScanCc_NoClamp(cells, cc0, offset) == ScanLoop(cells, cc0, offset, 0)

ScanCc(cells, cc0, offset) ==
    LET newCc == ScanLoop(cells, cc0, offset, 0) IN
    IF newCc >= 0 /\ newCc <= maxCc THEN newCc
    ELSE IF offset > 0 THEN maxCc ELSE 0

\* the for loop of the addmulti case
RECURSIVE AddMulti(_, _, _, _, _)
AddMulti(cells, cc0, value, targets, j) ==
    IF j > Len(targets) THEN cells
    ELSE LET targetCc == cc0 + targets[j].offset IN
         AddMulti(IF targetCc >= 0 /\ targetCc <= maxCc
                  THEN [cells EXCEPT ![targetCc] =
                           And255(cells[targetCc] + value * targets[j].amount)]
                  ELSE cells,
                  cc0, value, targets, j + 1)

\* execCompiledLoop whose clear, move and addmulti cases leave the tape alone
execCompiledLoop_NoClear(loop, cells, cc0) ==
    IF loop.type \in {"scan", "search"}
    THEN << cells, ScanCc(cells, cc0, loop.offset) >>
    ELSE << cells, cc0 >>

\* execCompiledLoop(loop): yields <<cells, cc>>
execCompiledLoop(loop, cells, cc0) ==
    CASE loop.type = "clear" -> << [cells EXCEPT ![cc0] = 0], cc0 >>
      [] loop.type = "move" ->
           LET value == cells[cc0]
               c1 == IF cc0 + loop.offset >= 0 /\ cc0 + loop.offset <= maxCc
                     THEN Store(cells, cc0 + loop.offset,
                                NumAdd(Load(cells, cc0 + loop.offset), << value >>))
                     ELSE cells
           IN << [c1 EXCEPT ![cc0] = 0], cc0 >>
      [] loop.type = "addmulti" ->
           << [AddMulti(cells, cc0, cells[cc0], loop.targets, 1) EXCEPT ![cc0] = 0], cc0 >>
      [] loop.type = "scan" -> << cells, ScanCc(cells, cc0, loop.offset) >>
      [] loop.type = "search" -> << cells, ScanCc(cells, cc0, loop.offset) >>
      [] OTHER -> << cells, cc0 >>

\* ------------------------------------------------------------ the inputs
\* a source text, written as its characters
CharOf(ch) ==
    CASE ch = "<" -> CharLT [] ch = ">" -> CharGT [] ch = "+" -> CharADD
      [] ch = "-" -> CharSUB [] ch = "[" -> CharLB [] ch = "]" -> CharRB
      [] ch = "." -> CharDOT [] ch = "," -> CharCOMMA [] ch = " " -> 32
      [] OTHER -> 120
Src(chars) == [j \in 1..Len(chars) |-> CharOf(chars[j])]
Rep(ch, n) == [j \in 1..n |-> CharOf(ch)]
SeqsUpTo(S, n) == UNION {[1..k -> S] : k \in 0..n}

OpBytes == {CharLT, CharGT, CharADD, CharSUB, CharLB, CharRB, CharDOT, CharCOMMA}

\* scenario 4 of the specification: +++++[->++>+++<<]
Scenario4 == Src(<<"+","+","+","+","+","[","-",">","+","+",">","+","+","+","<","<","]">>)
\* scenario 3: +++++[->++<]
Scenario3 == Src(<<"+","+","+","+","+","[","-",">","+","+","<","]">>)
\* ++++++++++[>+[-]<-]: the inner clear loop is reached ten times
HotClear == Rep("+", 10) \o Src(<<"[",">","+","[","-","]","<","-","]">>)
\* ++++++++++[>+[->+<]<-]: the inner move loop is reached ten times
HotMove == Rep("+", 10) \o Src(<<"[",">","+","[","-",">","+","<","]","<","-","]">>)
\* +++++++++>+->++[<+-<[>[<]<-]+>+>-]: the scan loop [<] is skipped nine times
\* on a zero cell and reached the tenth time with cells 0 and 1 both non-zero
HotScan == Rep("+", 9)
           \o Src(<<">","+","-",">","+","+","[","<","+","-","<","[",">","[","<","]",
                    "<","-","]","+",">","+",">","-","]">>)
\* ++++++++++[>+[<->-<+>]<-]: the 7-op shape is reached ten times
HotAddMulti == Rep("+", 10)
               \o Src(<<"[",">","+","[","<","-",">","-","<","+",">","]","<","-","]">>)
\* ++++++++++[>+[->>+<<]<-]: the move loop with operand 2 is reached ten times
\* on cell 1, its target is cell 3
HotMoveFar == Rep("+", 10)
              \o Src(<<"[",">","+","[","-",">",">","+","<","<","]","<","-","]">>)
\* ++++++++++[>+[<-->-<+>]<]: a loop with the kinds of the 7-op shape and a
\* Sub of operand 2 is reached ten times; the loop decrements the outer counter
HotKindOnly == Rep("+", 10)
               \o Src(<<"[",">","+","[","<","-","-",">","-","<","+",">","]","<","]">>)
\* , followed by a run of n operators: the run folds into one op with operand n
RunLens == {1, 255, 256, 257}
FoldedRuns == {Src(<<",">>) \o Rep(ch, n) : ch \in {"+", "-"}, n \in RunLens}
\* ,[->-<]  ,[->+++<]  ,[-> 257 x + <]: MulAdd with factor -1, 3 and 257
FactorLoop(ch, n) == Src(<<",","[","-",">">>) \o Rep(ch, n) \o Src(<<"<","]">>)
FactorLoops == {FactorLoop("-", 1), FactorLoop("+", 3), FactorLoop("+", 257)}

\* +^v [ body ]: a loop entered with the current cell holding v
MaxStart == 3
MaxBodyLen == 5
LoopSource(v, body) == Rep("+", v) \o << CharLB >> \o body \o << CharRB >>
LoopBodies == SeqsUpTo({CharLT, CharGT, CharADD, CharSUB}, MaxBodyLen)
\* the bodies tryOptimizeLoop rewrites
Rewritten(body) == tryOptimizeLoop(create_program(body)) # NoOp
LoopSources == {LoopSource(v, body) : v \in 0..MaxStart,
                                      body \in {b \in LoopBodies : Rewritten(b)}}

Curated == {Scenario4, Scenario3, HotClear, HotMove, HotScan, HotAddMulti,
            HotMoveFar, HotKindOnly}
           \cup FoldedRuns \cup FactorLoops
ExecSources == SeqsUpTo(OpBytes, MaxSrcLen) \cup LoopSources \cup Curated
Inputs == {<< >>, << 65 >>, << 200, 7 >>}
\* standard input is read by "," alone: a source without one is run on empty input
InputsFor(bytes) ==
    IF \E j \in 1..Len(bytes) : bytes[j] = CharCOMMA THEN Inputs ELSE {<< >>}

\* ------------------------------------------------------------- the state
VARIABLES
    src,       \* the source bytes handed to run()
    input,     \* the bytes on standard input when the run starts
    mode,      \* "aot" (interp-aot.ts run) or "jit" (interp-jit.ts run)
    phase,     \* "load", "run", "done", "error" (compile threw)
    prog,      \* the IR
    code,      \* mode aot: the statements of the emitted routine
    pc,        \* mode jit: Interpreter.pc; mode aot: the statement executed next
    cc,        \* the cursor
    cells,     \* the tape
    tmp,       \* mode aot: the const read by the last load statement
    hotCount,  \* mode jit: Interpreter.hotCount
    out,       \* the bytes written to standard output
    inp,       \* the bytes of standard input not read yet
    moves,     \* mode aot: per statement, the operands of the IR's moves just before it
    lcur,      \* mode aot, history: 0 plus the operands of the IR's moves passed so far
    results    \* the outcomes of the runs of this source finished so far

vars == <<src, input, mode, phase, prog, code, pc, cc, cells, tmp, hotCount,
          out, inp, moves, lcur, results>>

ZeroTape == [j \in 0..(TapeSize - 1) |-> 0]
EmptyMap == [j \in {} |-> 0]

\* the process start: nothing built, new Uint8Array(30000), cc = 0, pc = 0
Fresh(m) ==
    /\ mode = m
    /\ phase = "load"
    /\ prog = << >>
    /\ code = << >>
    /\ pc = 0
    /\ cc = 0
    /\ cells = ZeroTape
    /\ tmp = NaN
    /\ hotCount = EmptyMap
    /\ out = << >>
    /\ inp = input
    /\ moves = << >>
    /\ lcur = 0
    /\ results = << >>

Init ==
    /\ src \in ExecSources
    /\ input \in InputsFor(src)
    /\ \E m \in {"aot", "jit"} : Fresh(m)

\* ------------------------------------------------ mode D: interp-aot.ts run
\* the cursor of a run-away routine (while (cells[cc] !== 0) with cc outside
\* the array never ends) is followed this far outside the tape
CcCap == TapeSize + MaxSrcLen

Outcome(status) ==
    [mode |-> mode, status |-> status, out |-> out, cells |-> cells, cc |-> cc]

\* run(): create_and_optimize_program, new AOTCompiler().compile; compile
\* rethrows when eval fails
CompileAot ==
    /\ phase = "load" /\ mode = "aot"
    /\ prog' = create_and_optimize_program(src)
    /\ code' = compile(prog')
    /\ IF EvalOk(code')
       THEN phase' = "run" /\ results' = results
       ELSE phase' = "error" /\ results' = Append(results, Outcome("error"))
    /\ moves' = MovesTable(prog')
    /\ lcur' = At(moves', 0)
    /\ UNCHANGED <<src, input, mode, pc, cc, cells, tmp, hotCount, out, inp>>

AotAt(k) == phase = "run" /\ mode = "aot" /\ pc < Len(code) /\ At(code, pc).k = k
AotFrame == UNCHANGED <<src, input, mode, phase, prog, code, moves, hotCount, results>>
\* control falls, or leaves a loop, into the statement pc': the moves of the IR
\* before that statement's op have been passed
Passes == lcur' = lcur + At(moves, pc')

\* cells[cc + off] += val;
ExecAdd ==
    /\ AotAt("addc")
    /\ LET st == At(code, pc) IN
       cells' = Store(cells, cc + st.off, NumAdd(Load(cells, cc + st.off), << st.val >>))
    /\ pc' = pc + 1
    /\ Passes
    /\ AotFrame /\ UNCHANGED <<cc, tmp, out, inp>>

\* cc += val;
ExecMove ==
    /\ AotAt("movecc")
    /\ cc + At(code, pc).val \in (-CcCap)..(TapeSize + CcCap)
    /\ cc' = cc + At(code, pc).val
    /\ pc' = pc + 1
    /\ Passes
    /\ AotFrame /\ UNCHANGED <<cells, tmp, out, inp>>

\* process.stdout.write(String.fromCharCode(cells[cc + off]));
ExecOut ==
    /\ AotAt("out")
    /\ Len(out) < OutCap
    /\ out' = out \o WriteChar(Load(cells, cc + At(code, pc).off))
    /\ pc' = pc + 1
    /\ Passes
    /\ AotFrame /\ UNCHANGED <<cc, cells, tmp, inp>>

\* fs.readSync(...); cells[cc] = buf[0];
ExecIn ==
    /\ AotAt("in")
    /\ cells' = Store(cells, cc, << ReadByte(inp) >>)
    /\ inp' = ReadRest(inp)
    /\ pc' = pc + 1
    /\ Passes
    /\ AotFrame /\ UNCHANGED <<cc, tmp, out>>

\* cells[cc + off] = 0;
ExecZero ==
    /\ AotAt("zero")
    /\ cells' = Store(cells, cc + At(code, pc).off, << 0 >>)
    /\ pc' = pc + 1
    /\ Passes
    /\ AotFrame /\ UNCHANGED <<cc, tmp, out, inp>>

\* const v = cells[cc + off];
ExecLoad ==
    /\ AotAt("load")
    /\ tmp' = Load(cells, cc + At(code, pc).off)
    /\ pc' = pc + 1
    /\ Passes
    /\ AotFrame /\ UNCHANGED <<cc, cells, out, inp>>

\* cells[cc + off] += v * factor;
ExecAddMul ==
    /\ AotAt("addmul")
    /\ LET st == At(code, pc) IN
       cells' = Store(cells, cc + st.off,
                      NumAdd(Load(cells, cc + st.off), NumMul(tmp, << st.val >>)))
    /\ pc' = pc + 1
    /\ Passes
    /\ AotFrame /\ UNCHANGED <<cc, tmp, out, inp>>

\* while (cells[cc] !== 0) {   (undefined !== 0 holds)
ExecWhile ==
    /\ AotAt("while")
    /\ pc' = IF Load(cells, cc) # << 0 >> THEN pc + 1 ELSE BlockEnd(code, pc + 1, 1) + 1
    /\ Passes
    /\ AotFrame /\ UNCHANGED <<cc, cells, tmp, out, inp>>

\* }   (back to the test of the loop)
ExecEnd ==
    /\ AotAt("end")
    /\ pc' = BlockStart(code, pc - 1, 1)
    /\ AotFrame /\ UNCHANGED <<cc, cells, tmp, out, inp, lcur>>

\* return cc;
ExecReturn ==
    /\ phase = "run" /\ mode = "aot" /\ pc >= Len(code)
    /\ phase' = "done"
    /\ results' = Append(results, Outcome("done"))
    /\ UNCHANGED <<src, input, mode, prog, code, pc, cc, cells, tmp, hotCount, out, inp,
                   moves, lcur>>

\* ------------------------------------------------ mode E: interp-jit.ts run
\* run(): create_program, new Interpreter(prog)
BuildJit ==
    /\ phase = "load" /\ mode = "jit"
    /\ prog' = create_program(src)
    /\ phase' = "run"
    /\ UNCHANGED <<src, input, mode, code, pc, cc, cells, tmp, hotCount, out, inp,
                   moves, lcur, results>>

JitAt(t) == phase = "run" /\ mode = "jit" /\ pc < Len(prog) /\ At(prog, pc).type = t
\* JitFrame of an interpreter that keeps the arrival count in the op it
\* executes instead of the separate map
JitFrame_CountInOp ==
    /\ prog' = [prog EXCEPT ![pc + 1].operand = @ + 1]
    /\ UNCHANGED <<src, input, mode, phase, code, tmp, moves, lcur, results>>
JitFrame == UNCHANGED <<src, input, mode, phase, prog, code, tmp, moves, lcur, results>>

\* (this.hotCount.get(this.pc) || 0) + 1
NextCount == (IF pc \in DOMAIN hotCount THEN hotCount[pc] ELSE 0) + 1
CountSet == [j \in (DOMAIN hotCount) \cup {pc} |-> IF j = pc THEN NextCount ELSE hotCount[j]]
\* TakesFastPath with the comparison count > HOT_THRESHOLD
TakesFastPath_Late == NextCount > HOT_THRESHOLD /\ analyzeLoop(prog, pc) # NoLoop

\* the loop is hot and compileLoop recognises it
TakesFastPath == NextCount >= HOT_THRESHOLD /\ analyzeLoop(prog, pc) # NoLoop

\* OPEN, hot and recognised: execCompiledLoop, pc = operand + 1, continue
RunHot ==
    /\ JitAt("OPEN")
    /\ NextCount <= HotCap
    /\ TakesFastPath
    /\ hotCount' = CountSet
    /\ LET r == execCompiledLoop(analyzeLoop(prog, pc), cells, cc) IN
       cells' = r[1] /\ cc' = r[2]
    /\ pc' = At(prog, pc).operand + 1
    /\ JitFrame /\ UNCHANGED <<out, inp>>

\* OPEN otherwise: count, then the switch
StepOpen ==
    /\ JitAt("OPEN")
    /\ NextCount <= HotCap
    /\ ~TakesFastPath
    /\ hotCount' = CountSet
    /\ pc' = (IF cells[cc] = 0 THEN At(prog, pc).operand ELSE pc) + 1
    /\ JitFrame /\ UNCHANGED <<cc, cells, out, inp>>

StepClose ==
    /\ JitAt("CLOSE")
    /\ pc' = (IF cells[cc] # 0 THEN At(prog, pc).operand ELSE pc) + 1
    /\ JitFrame /\ UNCHANGED <<cc, cells, hotCount, out, inp>>

\* if (this.cc > 0) this.cc--;
StepLeft ==
    /\ JitAt("LEFT")
    /\ cc' = IF cc > 0 THEN cc - 1 ELSE cc
    /\ pc' = pc + 1
    /\ JitFrame /\ UNCHANGED <<cells, hotCount, out, inp>>

\* if (this.cc < this.cells.length - 1) this.cc++;
StepRight ==
    /\ JitAt("RIGHT")
    /\ cc' = IF cc < TapeSize - 1 THEN cc + 1 ELSE cc
    /\ pc' = pc + 1
    /\ JitFrame /\ UNCHANGED <<cells, hotCount, out, inp>>

StepAdd ==
    /\ JitAt("ADD")
    /\ cells' = [cells EXCEPT ![cc] = And255(cells[cc] + At(prog, pc).operand)]
    /\ pc' = pc + 1
    /\ JitFrame /\ UNCHANGED <<cc, hotCount, out, inp>>

StepSub ==
    /\ JitAt("SUB")
    /\ cells' = [cells EXCEPT ![cc] = And255(cells[cc] - At(prog, pc).operand)]
    /\ pc' = pc + 1
    /\ JitFrame /\ UNCHANGED <<cc, hotCount, out, inp>>

StepOutput ==
    /\ JitAt("OUTPUT")
    /\ Len(out) < OutCap
    /\ out' = out \o WriteChar(<< cells[cc] >>)
    /\ pc' = pc + 1
    /\ JitFrame /\ UNCHANGED <<cc, cells, hotCount, inp>>

StepInput ==
    /\ JitAt("INPUT")
    /\ cells' = Store(cells, cc, << ReadByte(inp) >>)
    /\ inp' = ReadRest(inp)
    /\ pc' = pc + 1
    /\ JitFrame /\ UNCHANGED <<cc, hotCount, out>>

\* the while condition fails: run() returns
RunExit ==
    /\ phase = "run" /\ mode = "jit" /\ pc >= Len(prog)
    /\ phase' = "done"
    /\ results' = Append(results, Outcome("done"))
    /\ UNCHANGED <<src, input, mode, prog, code, pc, cc, cells, tmp, hotCount, out, inp,
                   moves, lcur>>

\* the same file and the same standard input run again in the other mode
OtherMode == IF mode = "aot" THEN "jit" ELSE "aot"
RunOther ==
    /\ phase \in {"done", "error"}
    /\ Len(results) = 1
    /\ mode' = OtherMode
    /\ phase' = "load"
    /\ prog' = << >> /\ code' = << >>
    /\ pc' = 0 /\ cc' = 0 /\ cells' = ZeroTape /\ tmp' = NaN
    /\ hotCount' = EmptyMap /\ out' = << >> /\ inp' = input
    /\ moves' = << >> /\ lcur' = 0
    /\ UNCHANGED <<src, input, results>>

Next ==
    \/ CompileAot \/ ExecAdd \/ ExecMove \/ ExecOut \/ ExecIn \/ ExecZero
    \/ ExecLoad \/ ExecAddMul \/ ExecWhile \/ ExecEnd \/ ExecReturn
    \/ BuildJit \/ RunHot \/ StepOpen \/ StepClose \/ StepLeft \/ StepRight
    \/ StepAdd \/ StepSub \/ StepOutput \/ StepInput \/ RunExit
    \/ RunOther

Spec == Init /\ [][Next]_vars

\* ------------------------------------------- the IR builders on any bytes
\* an operator byte, a blank and a comment byte
LexBytes == OpBytes \cup {32, 120}
\* [-]-x -   a rewritten loop, then two "-" separated by a comment and a blank
\* [[-]>.]   a loop around a rewritten loop
\* [-][.]   a loop after a rewritten loop
\* [[->+<]>[-]+[.-]]   loops after and around rewritten loops
LexCurated == {Src(<<"[", "-", "]", "-", "x", " ", "-">>),
               Src(<<"[", "[", "-", "]", ">", ".", "]">>),
               Src(<<"[", "-", "]", "[", ".", "]">>),
               Src(<<"[", "[", "-", ">", "+", "<", "]", ">", "[", "-", "]", "+",
                     "[", ".", "-", "]", "]">>)}
\* [ body ]: one loop over the four move and add operators
BareLoops == {<< CharLB >> \o b \o << CharRB >> : b \in LoopBodies}
LexSources == SeqsUpTo(LexBytes, MaxLexLen) \cup LexCurated \cup BareLoops

LexInit ==
    /\ src \in LexSources
    /\ input = << >>
    /\ \E m \in {"aot", "jit"} : Fresh(m)

LexNext == CompileAot \/ BuildJit

LexSpec == LexInit /\ [][LexNext]_vars

\* the IR a mode builds from bytes
BuildIR(m, bytes) ==
    IF m = "aot" THEN create_and_optimize_program(bytes) ELSE create_program(bytes)
Built == phase # "load"

\* ------------------------------------------------------ brackets of a source
\* the positions (1-based) of the "[" bytes still open after the first k bytes
RECURSIVE OpenAfter(_, _)
OpenAfter(bytes, k) ==
    IF k = 0 THEN << >>
    ELSE LET st == OpenAfter(bytes, k - 1) IN
         IF bytes[k] = CharLB THEN Append(st, k)
         ELSE IF bytes[k] = CharRB /\ Len(st) > 0 THEN SubSeq(st, 1, Len(st) - 1)
         ELSE st
UnmatchedOpens(bytes) ==
    LET st == OpenAfter(bytes, Len(bytes)) IN {st[j] : j \in 1..Len(st)}
UnmatchedCloses(bytes) ==
    {k \in 1..Len(bytes) : bytes[k] = CharRB /\ Len(OpenAfter(bytes, k - 1)) = 0}
Delete(bytes, k) == SubSeq(bytes, 1, k - 1) \o SubSeq(bytes, k + 1, Len(bytes))

\* ================================================================ claims

BothDone ==
    /\ Len(results) = 2
    /\ results[1].status = "done"
    /\ results[2].status = "done"

\* C1: for any source and any input, the run in mode D and the run in mode E
\* (normal interpretation) write the same output bytes and leave the same tape.
C1_ModesAgree ==
    BothDone => /\ results[1].out = results[2].out
                /\ results[1].cells = results[2].cells

\* the loop bodies whose moves are single steps that stay on the tape: the
\* cursor offsets reached inside the body, one per prefix of the body
BodyOffsets(body) ==
    {Cardinality({j \in 1..k : body[j] = CharGT})
       - Cardinality({j \in 1..k : body[j] = CharLT}) : k \in 0..Len(body)}
EveryMoveIsOne(body) ==
    \A j \in 1..Len(create_program(body)) :
        create_program(body)[j].type \in {"LEFT", "RIGHT"}
            => create_program(body)[j].operand = 1
PlainBody(body) ==
    /\ Rewritten(body)
    /\ EveryMoveIsOne(body)
    /\ \A o \in BodyOffsets(body) : InTape(o)
\* bytes is +^v [ body ] with a plain body
IsPlainLoopSource(bytes) ==
    \E v \in 0..MaxStart :
        /\ Len(bytes) >= v + 2 /\ Len(bytes) <= v + 2 + MaxBodyLen
        /\ \A j \in 1..v : bytes[j] = CharADD
        /\ bytes[v + 1] = CharLB /\ bytes[Len(bytes)] = CharRB
        /\ LET body == SubSeq(bytes, v + 2, Len(bytes) - 1) IN
           /\ \A j \in 1..Len(body) : body[j] \in {CharLT, CharGT, CharADD, CharSUB}
           /\ PlainBody(body)

\* C2: for every loop body tryOptimizeLoop rewrites and every starting value of
\* the current cell, executing the rewritten op once (mode D) leaves the same
\* tape and cursor as iterating the original body until the cell is 0 (the
\* loop as mode E interprets it the first time it is entered).
C2_RewriteMatchesIteration ==
    (BothDone /\ IsPlainLoopSource(src))
        => /\ results[1].cells = results[2].cells
           /\ results[1].cc = results[2].cc

Scenario4Tape == [j \in 0..(TapeSize - 1) |-> IF j = 1 THEN 10 ELSE IF j = 2 THEN 15 ELSE 0]

\* C3: +++++[->++>+++<<] from a zeroed tape ends with tape[0] = 0, tape[1] = 10,
\* tape[2] = 15 and every other cell 0, in mode D and in mode E.
C3_Scenario4Result ==
    (src = Scenario4 /\ phase = "done") => cells = Scenario4Tape

\* every bracket op of ir is linked to its partner
WellLinked(ir) ==
    \A i \in 0..(Len(ir) - 1) :
        /\ At(ir, i).type = "OPEN" =>
              LET j == At(ir, i).operand IN
              /\ j \in 0..(Len(ir) - 1)
              /\ At(ir, j).type = "CLOSE"
              /\ At(ir, j).operand = i
        /\ At(ir, i).type = "CLOSE" =>
              LET j == At(ir, i).operand IN
              /\ j \in 0..(Len(ir) - 1)
              /\ At(ir, j).type = "OPEN"
              /\ At(ir, j).operand = i

\* C4: for any source bytes, balanced or not, every LoopOpen of the IR a
\* builder returns is linked to a LoopClose that links back, and vice versa.
C4_BracketsLinked == Built => WellLinked(prog)

\* C5: a "[" still unmatched at end of input leaves no LoopOpen: the IR equals
\* the IR of the source with that "[" byte deleted.
C5_UnmatchedOpenDropped ==
    Built => \A k \in UnmatchedOpens(src) : prog = BuildIR(mode, Delete(src, k))

\* C6: a "]" seen while the bracket stack is empty emits nothing and changes
\* nothing else: the IR equals the IR of the source with that "]" byte deleted.
C6_UnmatchedCloseDropped ==
    Built => \A k \in UnmatchedCloses(src) : prog = BuildIR(mode, Delete(src, k))

\* +]+ was built into the single op Add 2
C6_Witness ==
    /\ Built
    /\ src = Src(<<"+", "]", "+">>)
    /\ UnmatchedCloses(src) = {2}
    /\ Len(prog) = 1 /\ prog[1].type = "ADD" /\ prog[1].operand = 2

\* C7: in the IR of either builder no two consecutive ops have the same kind
\* among MoveLeft, MoveRight, Add, Sub.
C7_RunsFused ==
    Built => \A j \in 1..(Len(prog) - 1) :
                 prog[j].type \in repeatableOps => prog[j + 1].type # prog[j].type

\* two "-" separated by a comment byte and a blank, after a loop that was
\* replaced by Zero, were built into one Sub 2
C7_Witness ==
    /\ Built /\ mode = "aot"
    /\ src = Src(<<"[", "-", "]", "-", "x", " ", "-">>)
    /\ Len(prog) = 2 /\ prog[1].type = "ZERO"
    /\ prog[2].type = "SUB" /\ prog[2].operand = 2

\* C8: in mode D the cursor is clamped to the tape: cc and every accessed index
\* cc + static_off stay within 0..tape_size-1 in every state of the routine.
C8_AotCursorInTape ==
    (mode = "aot" /\ phase \in {"run", "done"})
        => /\ InTape(cc)
           /\ (pc < Len(code) /\ At(code, pc).k \in {"addc", "out", "zero", "load", "addmul"})
                 => InTape(cc + At(code, pc).off)

\* C9: in mode E the cursor satisfies 0 <= cc <= tape_size-1 in every state of
\* Interpreter.run, after normal moves and after every hot-loop fast path.
C9_JitCursorInTape == mode = "jit" => (cc >= 0 /\ cc <= TapeSize - 1)

\* the scan loop [<] of HotScan was left by its fast path at the tenth arrival:
\* the scan started on cell 1 with cells 0 and 1 non-zero, ran off the left end
\* and the cursor was clamped to 0
C9_Witness ==
    /\ mode = "jit" /\ phase = "run" /\ src = HotScan
    /\ pc >= 1 /\ pc <= Len(prog)
    /\ At(prog, pc - 1).type = "CLOSE"
    /\ LET open == At(prog, pc - 1).operand IN
       /\ analyzeLoop(prog, open) = CompiledLoop("scan", -1, << >>)
       /\ open \in DOMAIN hotCount /\ hotCount[open] = HOT_THRESHOLD
    /\ cc = 0 /\ cells[0] # 0 /\ cells[1] # 0

\* the exact integer result of a store, reduced modulo 256
Wrap(x) == x % 256
CellsAreBytes == \A j \in 0..(TapeSize - 1) : cells[j] \in 0..255

\* the stores of one step: Add/Sub in both modes, the += of Copy/MulAdd in the
\* routine, the move and addmulti fast paths of the interpreter
StoresAreExact ==
    /\ AotAt("addc") /\ InTape(cc + At(code, pc).off)
         => cells'[cc + At(code, pc).off]
               = Wrap(cells[cc + At(code, pc).off] + At(code, pc).val)
    /\ AotAt("addmul") /\ InTape(cc + At(code, pc).off) /\ tmp # NaN
         => cells'[cc + At(code, pc).off]
               = Wrap(cells[cc + At(code, pc).off] + tmp[1] * At(code, pc).val)
    /\ JitAt("ADD") => cells'[cc] = Wrap(cells[cc] + At(prog, pc).operand)
    /\ JitAt("SUB") => cells'[cc] = Wrap(cells[cc] - At(prog, pc).operand)
    /\ (JitAt("OPEN") /\ TakesFastPath /\ cells[cc] # 0
        /\ analyzeLoop(prog, pc).type = "move"
        /\ InTape(cc + analyzeLoop(prog, pc).offset))
         => cells'[cc + analyzeLoop(prog, pc).offset]
               = Wrap(cells[cc + analyzeLoop(prog, pc).offset] + cells[cc])
    /\ (JitAt("OPEN") /\ TakesFastPath /\ analyzeLoop(prog, pc).type = "addmulti"
        /\ InTape(cc - 1))
         => cells'[cc - 1] = Wrap(cells[cc - 1] + cells[cc] * (-1) + cells[cc] * 1)

\* the input byte a first "," stores
FirstByte == IF Len(input) > 0 THEN input[1] ELSE 0
\* a run of n "+" or "-" after ",": the folded op adds n at once
FoldedRunResult ==
    \A n \in RunLens :
        /\ (phase = "done" /\ src = Src(<<",">>) \o Rep("+", n))
              => cells[0] = Wrap(FirstByte + n)
        /\ (phase = "done" /\ src = Src(<<",">>) \o Rep("-", n))
              => cells[0] = Wrap(FirstByte - n)
\* ,[->f<]: cell 1 receives v * f
FactorLoopResult ==
    /\ (phase = "done" /\ mode = "aot" /\ src = FactorLoop("-", 1))
          => cells[1] = Wrap(FirstByte * (-1)) /\ cells[0] = 0
    /\ (phase = "done" /\ mode = "aot" /\ src = FactorLoop("+", 3))
          => cells[1] = Wrap(FirstByte * 3) /\ cells[0] = 0
    /\ (phase = "done" /\ mode = "aot" /\ src = FactorLoop("+", 257))
          => cells[1] = Wrap(FirstByte * 257) /\ cells[0] = 0

\* C10: every store to a cell is the exact integer result modulo 256 (Add n,
\* Sub n for any folded operand n, Copy/MulAdd with any factor), in both modes;
\* hence every cell is in 0..255 in every state, and 256 "+" return a cell to
\* its starting value.
C10_StoresWrap ==
    /\ [](CellsAreBytes /\ FoldedRunResult /\ FactorLoopResult)
    /\ [][StoresAreExact]_vars

\* both modes have run , followed by 256 "+" on the input byte 200 and both
\* left 200 in cell 0
C10_Witness ==
    /\ BothDone
    /\ src = Src(<<",">>) \o Rep("+", 256)
    /\ input = << 200, 7 >>
    /\ results[1].cells[0] = 200 /\ results[2].cells[0] = 200
    /\ \A j \in 1..Len(prog) : prog[j].type = "ADD" => prog[j].operand = 256

\* ------------------------------------------------------------- scan loops
\* a loop whose body is a single MoveLeft or MoveRight
IsScanBody(body) == Len(body) = 1 /\ body[1].type \in {"LEFT", "RIGHT"}

\* sources made of a short prefix and one scan loop, and the sources that
\* exercise the other statements and ops
ScanPrefixes == SeqsUpTo({CharADD, CharGT}, MaxSrcLen - 1)
ScanSources ==
    {p \o << CharLB, m, CharRB >> : p \in ScanPrefixes, m \in {CharLT, CharGT}}
    \cup {HotScan, Scenario3, Src(<<",", ".">>)}

ScanInit ==
    /\ src \in ScanSources
    /\ input \in InputsFor(src)
    /\ \E m \in {"aot", "jit"} : Fresh(m)

\* the steps of the emitted routine and of Interpreter.run
RunStep ==
    \/ ExecAdd \/ ExecMove \/ ExecOut \/ ExecIn \/ ExecZero
    \/ ExecLoad \/ ExecAddMul \/ ExecWhile \/ ExecEnd \/ ExecReturn
    \/ RunHot \/ StepOpen \/ StepClose \/ StepLeft \/ StepRight
    \/ StepAdd \/ StepSub \/ StepOutput \/ StepInput \/ RunExit

\* the routine and run() are sequential code on one thread: while a step is
\* possible, the process takes it
FairSpec == ScanInit /\ [][Next]_vars /\ WF_vars(RunStep)

\* mode E: pc is on the LoopOpen of a scan loop and the loop is entered
JitScanEntered ==
    /\ JitAt("OPEN") /\ cells[cc] # 0
    /\ IsScanBody(LoopBody(prog, pc))
    /\ At(prog, pc).operand = pc + 2
\* mode E: pc is on the op after a scan loop, the cursor on a zero cell or on
\* the boundary cell of the scan direction
JitScanLeft ==
    /\ mode = "jit" /\ phase = "run" /\ pc >= 3
    /\ At(prog, pc - 1).type = "CLOSE" /\ At(prog, pc - 1).operand = pc - 3
    /\ IsScanBody(<< At(prog, pc - 2) >>)
    /\ \/ cells[cc] = 0
       \/ cc = (IF At(prog, pc - 2).type = "LEFT" THEN 0 ELSE TapeSize - 1)
\* mode D: the routine is on the test of a loop whose body only moves the
\* cursor, and the test succeeds
AotScanEntered ==
    /\ AotAt("while") /\ Load(cells, cc) # << 0 >>
    /\ pc + 2 < Len(code)
    /\ At(code, pc + 1).k = "movecc" /\ At(code, pc + 2).k = "end"
\* mode D: the routine is on the statement after such a loop
AotScanLeft ==
    /\ mode = "aot" /\ phase = "run" /\ pc >= 3
    /\ At(code, pc - 1).k = "end" /\ At(code, pc - 2).k = "movecc"
    /\ At(code, pc - 3).k = "while"
    /\ \/ Load(cells, cc) = << 0 >>
       \/ cc = (IF At(code, pc - 2).val < 0 THEN 0 ELSE TapeSize - 1)

\* C11: in both modes a scan loop that is entered terminates: execution reaches
\* the op after the loop with the cursor on the first zero cell in the scan
\* direction, or on the boundary cell when no zero cell is reached.
C11_ScanTerminates ==
    /\ JitScanEntered ~> JitScanLeft
    /\ AotScanEntered ~> AotScanLeft

\* the tape after the cell at idx was set to v, nothing written when idx is
\* outside the tape
TapeWith(tape, idx, v) == [j \in 0..(TapeSize - 1) |-> IF j = idx THEN v ELSE tape[j]]

\* the statements of a Copy/MulAdd op in the routine (the += of one target, the
\* zeroing of the source) and the move and addmulti fast paths of the interpreter
TargetWritesFramed ==
    /\ AotAt("addmul") /\ tmp # NaN
         => /\ cc' = cc
            /\ LET t == cc + At(code, pc).off IN
               cells' = IF InTape(t)
                        THEN TapeWith(cells, t, Wrap(cells[t] + tmp[1] * At(code, pc).val))
                        ELSE cells
    /\ AotAt("zero") /\ InTape(cc + At(code, pc).off)
         => cc' = cc /\ cells' = TapeWith(cells, cc + At(code, pc).off, 0)
    /\ (JitAt("OPEN") /\ NextCount >= HOT_THRESHOLD
        /\ analyzeLoop(prog, pc).type = "move")
         => /\ cc' = cc
            /\ LET t == cc + analyzeLoop(prog, pc).offset IN
               cells' = TapeWith(IF InTape(t)
                                 THEN TapeWith(cells, t, Wrap(cells[t] + cells[cc]))
                                 ELSE cells,
                                 cc, 0)
    /\ (JitAt("OPEN") /\ NextCount >= HOT_THRESHOLD
        /\ analyzeLoop(prog, pc).type = "addmulti")
         => /\ cc' = cc
            /\ cells' = TapeWith(cells, cc, 0)

\* C12: with the cursor on the tape, a Copy/MulAdd write whose target index
\* cc + off is outside the tape is skipped: the op zeroes the source cell,
\* updates the targets on the tape and leaves every other cell and the cursor
\* unchanged, in the routine and in the move and addmulti fast paths.
C12_OutsideTargetSkipped == [][TargetWritesFramed]_vars

\* both modes have run HotMoveFar on a three-cell tape: every write to cell 3
\* was skipped; the routine's Copy left the tape zero, the interpreter's fast
\* path at the tenth arrival left cell 2 at the 9 of the interpreted arrivals
C12_Witness ==
    /\ BothDone /\ src = HotMoveFar /\ mode = "jit"
    /\ ~InTape(1 + 2)
    /\ results[1].cells = ZeroTape /\ results[1].cc = 0
    /\ results[2].cells = TapeWith(ZeroTape, 2, 9) /\ results[2].cc = 0
    /\ \E p \in DOMAIN hotCount :
          hotCount[p] = HOT_THRESHOLD /\ analyzeLoop(prog, p).type = "move"

\* an Input op: the byte read goes into the current cell, nothing else changes
InputStores ==
    /\ JitAt("INPUT") => cc' = cc /\ cells' = TapeWith(cells, cc, ReadByte(inp))
    /\ (AotAt("in") /\ InTape(cc)) => cc' = cc /\ cells' = TapeWith(cells, cc, ReadByte(inp))
\* ,. on an input that starts with byte b has written exactly b
EchoesFirstByte ==
    (phase = "done" /\ src = Src(<<",", ".">>) /\ Len(input) > 0) => out = << input[1] >>

\* C13: in both modes an Input op stores the next input byte into the current
\* cell, or 0 at end of input, whatever the cell held; the other cells and the
\* cursor are unchanged; and ,. with input byte b outputs exactly b.
C13_InputThenEcho == [](EchoesFirstByte) /\ [][InputStores]_vars

Min2(a, b) == IF a < b THEN a ELSE b
Max2(a, b) == IF a > b THEN a ELSE b

\* C14: in mode E a MoveRight op with operand n moves the cursor from c to
\* min(c + n, tape_size - 1) and a MoveLeft op with operand n to max(c - n, 0):
\* a folded move op moves by its whole run-length.
C14_MoveByRunLength ==
    [][/\ JitAt("RIGHT") => cc' = Min2(cc + At(prog, pc).operand, TapeSize - 1)
       /\ JitAt("LEFT") => cc' = Max2(cc - At(prog, pc).operand, 0)]_vars

\* ------------------------------------- a recognised loop, interpreted op by op
\* one op of a bracket-free body as the switch of Interpreter.run executes it,
\* on the pair <<cells, cc>>
NormalOp(op, st) ==
    CASE op.type = "LEFT" -> << st[1], IF st[2] > 0 THEN st[2] - 1 ELSE st[2] >>
      [] op.type = "RIGHT" -> << st[1], IF st[2] < TapeSize - 1 THEN st[2] + 1 ELSE st[2] >>
      [] op.type = "ADD" ->
           << [st[1] EXCEPT ![st[2]] = And255(st[1][st[2]] + op.operand)], st[2] >>
      [] op.type = "SUB" ->
           << [st[1] EXCEPT ![st[2]] = And255(st[1][st[2]] - op.operand)], st[2] >>
      [] OTHER -> st

\* the ops body[j..] in sequence
RECURSIVE NormalBody(_, _, _)
NormalBody(body, j, st) ==
    IF j > Len(body) THEN st ELSE NormalBody(body, j + 1, NormalOp(body[j], st))

\* OPEN body CLOSE from st: << the state at the op after CLOSE >>, or << >> when
\* the loop is still running after LoopFuel iterations
LoopFuel == 4
RECURSIVE NormalLoop(_, _, _)
NormalLoop(body, st, fuel) ==
    IF st[1][st[2]] = 0 THEN << st >>
    ELSE IF fuel = 0 THEN << >>
    ELSE NormalLoop(body, NormalBody(body, 1, st), fuel - 1)

\* the LoopOpen at p and the LoopClose at its operand point at each other
Linked(ir, p) ==
    /\ At(ir, p).operand \in 0..(Len(ir) - 1)
    /\ At(ir, At(ir, p).operand).type = "CLOSE"
    /\ At(ir, At(ir, p).operand).operand = p

\* C15: in mode E, for every loop analyzeLoop recognises and every tape and
\* cursor at its LoopOpen, executing the recognised form once and jumping past
\* the LoopClose leaves the tape and cursor that normal interpretation of the
\* loop leaves from the same state.
C15_FastPathMatchesLoop ==
    [][(/\ JitAt("OPEN") /\ Linked(prog, pc)
        /\ NextCount >= HOT_THRESHOLD
        /\ analyzeLoop(prog, pc) # NoLoop
        /\ NormalLoop(LoopBody(prog, pc), << cells, cc >>, LoopFuel) # << >>)
         => << cells', cc' >> = NormalLoop(LoopBody(prog, pc), << cells, cc >>, LoopFuel)[1]]_vars

\* the counters: only the arrival at a LoopOpen changes one, by one, and it is
\* the counter of that LoopOpen (a new run starts with none)
CountsArrivals ==
    /\ JitAt("OPEN")
         => hotCount' = [j \in (DOMAIN hotCount) \cup {pc} |->
                            IF j = pc
                            THEN (IF pc \in DOMAIN hotCount THEN hotCount[pc] ELSE 0) + 1
                            ELSE hotCount[j]]
    /\ ~JitAt("OPEN") => (hotCount' = hotCount \/ (phase' = "load" /\ hotCount' = EmptyMap))
\* the arrival below the threshold is interpreted: the tape and the cursor stay,
\* pc goes into the body or past the LoopClose
ColdArrival ==
    (JitAt("OPEN") /\ NextCount < 10)
        => /\ cells' = cells /\ cc' = cc
           /\ pc' = (IF cells[cc] = 0 THEN At(prog, pc).operand ELSE pc) + 1
\* the tenth and every later arrival at a recognisable loop executes the
\* specialised form and continues after the matching LoopClose
HotArrival ==
    (JitAt("OPEN") /\ NextCount >= 10 /\ analyzeLoop(prog, pc) # NoLoop /\ Linked(prog, pc))
        => /\ << cells', cc' >> = execCompiledLoop(analyzeLoop(prog, pc), cells, cc)
           /\ pc' = FindLoopEnd(prog, pc + 1, 1)
           /\ At(prog, pc' - 1).type = "CLOSE" /\ At(prog, pc' - 1).operand = pc
OnlyOpensCounted ==
    mode = "jit" => \A p \in DOMAIN hotCount : p < Len(prog) /\ At(prog, p).type = "OPEN"

\* C16: in mode E the counter of the LoopOpen at p is the number of times pc has
\* reached p (back-jumps land after p, no other index has a counter); the
\* specialised form is never executed while the count is below 10, and from the
\* 10th arrival on every arrival at a recognisable loop executes it and
\* continues at the op after the matching LoopClose.
C16_HotFromTenthArrival ==
    /\ []OnlyOpensCounted
    /\ [][CountsArrivals /\ ColdArrival /\ HotArrival]_vars

\* the inner loop [-] of HotClear has just been left by its tenth arrival: its
\* counter is 10, pc is after its LoopClose, and the cell the loop was entered
\* with is cleared although the body was never interpreted this time
C16_Witness ==
    /\ mode = "jit" /\ phase = "run" /\ src = HotClear
    /\ pc >= 3 /\ At(prog, pc - 1).type = "CLOSE" /\ At(prog, pc - 1).operand = pc - 3
    /\ analyzeLoop(prog, pc - 3).type = "clear"
    /\ (pc - 3) \in DOMAIN hotCount /\ hotCount[pc - 3] = 10
    /\ cells[cc] = 0 /\ cells[0] = 1

\* every "[" has its "]" and every "]" its "["
Balanced(bytes) == UnmatchedOpens(bytes) = {} /\ UnmatchedCloses(bytes) = {}
CountType(ir, T) == Cardinality({j \in 1..Len(ir) : ir[j].type \in T})
CountByte(bytes, b) == Cardinality({j \in 1..Len(bytes) : bytes[j] = b})

\* C17: for a bracket-balanced source, the LoopOpen/LoopClose ops of the IR of
\* create_and_optimize_program are mutually linked by their final indices, also
\* around and after loops collapsed into Zero/Copy/MulAdd, and a collapsed loop
\* leaves neither its LoopOpen nor its LoopClose: each "[" of the source is
\* either one linked pair or one Zero/Copy/MulAdd op.
C17_SurvivingLoopsLinked ==
    (Built /\ mode = "aot" /\ Balanced(src))
        => /\ WellLinked(prog)
           /\ CountType(prog, {"OPEN"}) = CountType(prog, {"CLOSE"})
           /\ CountType(prog, {"OPEN"}) + CountType(prog, {"ZERO", "COPY", "MULTIPLY"})
                 = CountByte(src, CharLB)

\* [[->+<]>[-]+[.-]] was built into OPEN COPY RIGHT ZERO ADD OPEN OUTPUT SUB
\* CLOSE CLOSE with the pairs 0-9 and 5-8 linked
C17_Witness ==
    /\ Built /\ mode = "aot"
    /\ src = Src(<<"[", "[", "-", ">", "+", "<", "]", ">", "[", "-", "]", "+",
                   "[", ".", "-", "]", "]">>)
    /\ Len(prog) = 10
    /\ At(prog, 0).type = "OPEN" /\ At(prog, 0).operand = 9
    /\ At(prog, 1).type = "COPY" /\ At(prog, 3).type = "ZERO"
    /\ At(prog, 5).type = "OPEN" /\ At(prog, 5).operand = 8
    /\ At(prog, 8).type = "CLOSE" /\ At(prog, 8).operand = 5
    /\ At(prog, 9).type = "CLOSE" /\ At(prog, 9).operand = 0

\* -------------------------------------------------- the pending static offset
\* this.offset when the for loop of compile reaches the op at index i
RECURSIVE OffsetBefore(_, _)
OffsetBefore(ir, i) ==
    IF i = 0 THEN 0 ELSE CompileOp(At(ir, i - 1), OffsetBefore(ir, i - 1))[2]
\* this.offset when the statement of the op at index i is pushed
PendingAt(ir, i) == CompileOp(At(ir, i), OffsetBefore(ir, i))[2]
\* this.offset at "return cc;": the final flushOffset has emitted what was left
PendingAtEnd(ir) ==
    LET left == OffsetBefore(ir, Len(ir)) IN
    IF left = 0 \/ (Len(code) > 0 /\ code[Len(code)] = Stmt("movecc", 0, left))
    THEN 0 ELSE left
PendingZeroAt(T) ==
    \A i \in 0..(Len(prog) - 1) : At(prog, i).type \in T => PendingAt(prog, i) = 0

\* C18: in the code emitted by AOTCompiler.compile the pending static offset is
\* zero at every loop boundary (LoopOpen, LoopClose), at every I/O point (Input
\* and Output) and at program end.
C18_OffsetZeroAtBoundaries ==
    (Built /\ mode = "aot")
        => /\ PendingZeroAt({"OPEN", "CLOSE", "INPUT", "OUTPUT"})
           /\ PendingAtEnd(prog) = 0

\* C18, amended: the pending static offset is zero at every LoopOpen, LoopClose
\* and Input and at program end; an Output is emitted without a flush, its
\* statement addresses cells[cc + pending offset].
C18_OffsetZeroExceptOutput ==
    (Built /\ mode = "aot")
        => /\ PendingZeroAt({"OPEN", "CLOSE", "INPUT"})
           /\ PendingAtEnd(prog) = 0
           /\ \A i \in 0..(Len(prog) - 1) :
                 At(prog, i).type = "OUTPUT"
                    => /\ PendingAt(prog, i) = OffsetBefore(prog, i)
                       /\ CompileOp(At(prog, i), OffsetBefore(prog, i))[1]
                             = << Stmt("out", OffsetBefore(prog, i), 0) >>

\* >,>. was compiled into cc += 1; the read into cells[cc]; the write of
\* cells[cc + 1]; cc += 1
C18_Witness ==
    /\ Built /\ mode = "aot"
    /\ src = Src(<<">", ",", ">", ".">>)
    /\ code = << Stmt("movecc", 0, 1), Stmt("in", 0, 0), Stmt("out", 1, 0),
                 Stmt("movecc", 0, 1) >>
    /\ PendingAt(prog, 1) = 0 /\ PendingAt(prog, 3) = 1

\* ------------------------------------------- the deltas of a loop body's bytes
\* the cursor offset at which byte j of body acts
PosAt(body, j) ==
    Cardinality({k \in 1..(j - 1) : body[k] = CharGT})
      - Cardinality({k \in 1..(j - 1) : body[k] = CharLT})
\* what one iteration of body adds to the cell at offset o
Delta(body, o) ==
    Cardinality({j \in 1..Len(body) : body[j] = CharADD /\ PosAt(body, j) = o})
      - Cardinality({j \in 1..Len(body) : body[j] = CharSUB /\ PosAt(body, j) = o})
\* bytes is [ body ] with the body over < > + -
IsBareLoop(bytes) ==
    /\ Len(bytes) >= 2 /\ bytes[1] = CharLB /\ bytes[Len(bytes)] = CharRB
    /\ \A j \in 2..(Len(bytes) - 1) : bytes[j] \in {CharLT, CharGT, CharADD, CharSUB}

\* C20: every MulAdd op of the IR of create_and_optimize_program has targets
\* with pairwise-distinct non-zero offsets and non-zero factors; every Copy op
\* has a non-zero destination offset, which is the only offset of its loop body
\* (the loop's own cell apart) with a non-zero per-iteration delta, and that
\* delta is +1.
C20_TargetsWellFormed ==
    (Built /\ mode = "aot")
        => /\ \A j \in 1..Len(prog) :
                 prog[j].type = "MULTIPLY"
                    => \A a \in 1..Len(prog[j].targets) :
                          /\ prog[j].targets[a].offset # 0
                          /\ prog[j].targets[a].factor # 0
                          /\ \A b \in 1..Len(prog[j].targets) :
                                a # b => prog[j].targets[a].offset # prog[j].targets[b].offset
           /\ \A j \in 1..Len(prog) : prog[j].type = "COPY" => prog[j].operand # 0
           /\ (IsBareLoop(src) /\ Len(prog) = 1 /\ prog[1].type = "COPY")
                 => LET body == SubSeq(src, 2, Len(src) - 1) IN
                    /\ Delta(body, prog[1].operand) = 1
                    /\ \A o \in BodyOffsets(body) \ {0, prog[1].operand} : Delta(body, o) = 0

\* [->+<] was built into the single op Copy 1: one iteration adds 1 to the
\* cell at offset 1 and touches no other cell but the loop's own
C20_Witness ==
    /\ Built /\ mode = "aot"
    /\ src = Src(<<"[", "-", ">", "+", "<", "]">>)
    /\ prog = << Op("COPY", 1, NoTargets) >>
    /\ Delta(SubSeq(src, 2, Len(src) - 1), 1) = 1

\* ------------------------------------------------------- the logical cursor
\* the first statement (0-based) pushed by the op of statement s
FirstStmtOf(ir, s) ==
    CHOOSE t \in 0..s : /\ OpOfStmt(ir, t) = OpOfStmt(ir, s)
                        /\ \A u \in 0..(t - 1) : OpOfStmt(ir, u) # OpOfStmt(ir, s)
\* the target offset of the IR op behind the addmul statement s: Copy's
\* operand, or the offset of the MulAdd target in the statement's position
TargetOffsetOf(ir, s) ==
    LET op == At(ir, OpOfStmt(ir, s)) IN
    IF op.type = "COPY" THEN op.operand
    ELSE op.targets[s - FirstStmtOf(ir, s)].offset

\* the index the statement about to run accesses, against the logical cursor
AddressesLogicalCell ==
    (mode = "aot" /\ phase = "run" /\ pc < Len(code))
        => LET st == At(code, pc) IN
           /\ st.k \in {"addc", "out", "zero", "load"} => cc + st.off = lcur
           /\ st.k = "addmul" => cc + st.off = lcur + TargetOffsetOf(prog, pc)
           /\ st.k \in {"while", "in"} => cc = lcur
\* at "return cc;"
ReturnsLogicalCursor ==
    (mode = "aot" /\ phase \in {"run", "done"} /\ pc >= Len(code)) => cc = lcur

\* C19: along every execution of the emitted routine each cell access of an
\* Add/Sub/Output/Zero/Copy/MulAdd op uses index L (+ the target offset), L the
\* logical cursor (0 plus the signed sum of the Move operands passed so far),
\* and at every loop test, every Input and at return cc itself equals L, also
\* inside loop bodies with non-zero net movement.
C19_BatchingKeepsAddresses == AddressesLogicalCell /\ ReturnsLogicalCursor

\* the routine of HotScan is back on the test of its loop [<] after an
\* iteration: the body's cc += -1 has run, cc and the logical cursor are both 0
C19_Witness ==
    /\ mode = "aot" /\ phase = "run" /\ src = HotScan
    /\ AotAt("while")
    /\ At(code, pc + 1) = Stmt("movecc", 0, -1) /\ At(code, pc + 2).k = "end"
    /\ cc = 0 /\ lcur = 0 /\ cells[1] # 0

\* ================================================================ C21
\* a source that is one loop whose body is a single run of "<" or of ">"
IsSingleMoveLoop(bytes) ==
    /\ Len(bytes) >= 3
    /\ bytes[1] = CharLB
    /\ bytes[Len(bytes)] = CharRB
    /\ \E m \in {CharLT, CharGT} : \A i \in 2..(Len(bytes) - 1) : bytes[i] = m

\* the single scan op the loop [ m^n ] would be replaced by
ScanOpFor(bytes) ==
    IF bytes[2] = CharLT
    THEN Op("SCANLEFT", -(Len(bytes) - 2), NoTargets)
    ELSE Op("SCANRIGHT", Len(bytes) - 2, NoTargets)

\* C21: when a loop's body is exactly one MoveLeft or MoveRight op with
\* operand n >= 1, create_and_optimize_program replaces the whole loop by a
\* single ScanLeft(-n) or ScanRight(+n) op, and no LoopOpen/LoopClose of
\* that loop remains in the IR.
C21_SingleMoveLoopBecomesScan ==
    (Built /\ mode = "aot" /\ IsSingleMoveLoop(src))
        => /\ prog = << ScanOpFor(src) >>
           /\ CountType(prog, "OPEN") = 0
           /\ CountType(prog, "CLOSE") = 0

\* ================================================================ C22
\* the bytes of a buffer that opMap knows, in order
IsOperatorByte(c) == opMap(c % 256) # ""
Strip(bytes) == SelectSeq(bytes, IsOperatorByte)

\* the operator bytes that reach the IR: the operator bytes without every
\* "]" that is seen while the bracket stack is empty
RECURSIVE KeepFrom(_, _, _)
KeepFrom(bytes, k, drop) ==
    IF k > Len(bytes) THEN << >>
    ELSE (IF k \in drop THEN << >> ELSE << bytes[k] >>) \o KeepFrom(bytes, k + 1, drop)
Effective(bytes) ==
    LET s == Strip(bytes) IN KeepFrom(s, 1, UnmatchedCloses(s))

\* the byte opMap maps to a kind
ByteOf(type) ==
    CASE type = "LEFT" -> CharLT
      [] type = "RIGHT" -> CharGT
      [] type = "ADD" -> CharADD
      [] type = "SUB" -> CharSUB
      [] type = "OPEN" -> CharLB
      [] type = "CLOSE" -> CharRB
      [] type = "OUTPUT" -> CharDOT
      [] type = "INPUT" -> CharCOMMA

\* the operator bytes an IR of create_program stands for: operand copies of
\* the byte of a Move/Add/Sub op, one byte for a bracket or an I/O op
RECURSIVE Unfold(_)
Unfold(ir) ==
    IF ir = << >> THEN << >>
    ELSE (IF Head(ir).type \in repeatableOps
          THEN [j \in 1..Head(ir).operand |-> ByteOf(Head(ir).type)]
          ELSE << ByteOf(Head(ir).type) >>) \o Unfold(Tail(ir))

\* the Move/Add/Sub ops of an IR, in order
IsRunOp(op) == op.type \in repeatableOps
RunOps(ir) == SelectSeq(ir, IsRunOp)
RECURSIVE IsSubseq(_, _)
IsSubseq(a, b) ==
    IF a = << >> THEN TRUE
    ELSE IF b = << >> THEN FALSE
    ELSE IF Head(a) = Head(b) THEN IsSubseq(Tail(a), Tail(b))
    ELSE IsSubseq(a, Tail(b))

\* every Move/Add/Sub op stands for one maximal run of its operator in the
\* operator bytes that reach the IR: the ops of create_program unfold to
\* exactly those bytes and no two neighbours share a kind; the Move/Add/Sub
\* ops create_and_optimize_program keeps are ops of create_program, in order
RunsAreMaximal ==
    /\ \A j \in 1..Len(prog) : prog[j].type \in repeatableOps => prog[j].operand >= 1
    /\ \A j \in 1..(Len(prog) - 1) :
           prog[j].type \in repeatableOps => prog[j + 1].type # prog[j].type
    /\ mode = "jit" => Unfold(prog) = Effective(src)
    /\ mode = "aot" => IsSubseq(RunOps(prog), RunOps(create_program(src)))

\* C22: the IR depends only on the operator bytes: each builder returns the
\* same IR as for the buffer with every byte outside ><+-.,[] deleted; every
\* Move/Add/Sub op has operand >= 1 equal to the length of the maximal run of
\* its operator it stands for (runs taken in the operator bytes that reach
\* the IR); an empty or comment-only buffer yields the empty IR.
C22_OnlyOperatorBytesCount ==
    Built => /\ prog = BuildIR(mode, Strip(src))
             /\ RunsAreMaximal
             /\ Strip(src) = << >> => prog = << >>

\* "+ x+": two "+" separated by a blank and a comment byte were built into
\* the single op Add 2, the IR of "++"
C22_Witness ==
    /\ Built
    /\ src = << CharADD, 32, 120, CharADD >>
    /\ Strip(src) = << CharADD, CharADD >>
    /\ prog = << Op("ADD", 2, NoTargets) >>

\* ================================================================ C23
\* the kind, operand and targets of every op of a equal those of b
SameOps(a, b) ==
    /\ Len(a) = Len(b)
    /\ \A j \in 1..Len(a) :
           /\ a[j].type = b[j].type
           /\ a[j].operand = b[j].operand
           /\ a[j].targets = b[j].targets

\* C23: Interpreter.run never modifies the IR: in every state of a run in
\* mode E the kind, operand and targets of every op equal their values at
\* construction time (the IR create_program returned for the source).
C23_RunKeepsIR ==
    (mode = "jit" /\ phase \in {"run", "done"}) => SameOps(prog, create_program(src))

\* the run of ++++++++++[>+[-]<-] has gone through a hot loop: pc, the tape
\* and the hot-count map have changed, the IR has not
C23_Witness ==
    /\ mode = "jit" /\ phase = "run"
    /\ src = HotClear
    /\ pc > 0
    /\ cells # ZeroTape
    /\ \E p \in DOMAIN hotCount : hotCount[p] >= HOT_THRESHOLD
    /\ SameOps(prog, create_program(src))

\* ================================================================ C24
\* a step of Interpreter.run that moves pc to the op after a LoopClose: the
\* skip at a LoopOpen (pc = operand + 1, normal or after a fast path) or the
\* fall-through at a LoopClose
LeavesLoop ==
    /\ mode = "jit" /\ phase = "run" /\ pc < Len(prog)
    /\ WellLinked(prog)
    /\ \/ At(prog, pc).type = "OPEN" /\ pc' = At(prog, pc).operand + 1
       \/ At(prog, pc).type = "CLOSE" /\ pc' = pc + 1

\* the step is the fast path of a scan whose while loop ran off the tape, so
\* that the cursor is set to the boundary cell
ClampedScan ==
    /\ JitAt("OPEN")
    /\ TakesFastPath
    /\ analyzeLoop(prog, pc).type \in {"scan", "search"}
    /\ ~InTape(ScanLoop(cells, cc, analyzeLoop(prog, pc).offset, 0))

\* C24 as stated: in mode E, for a well-linked IR, whenever control leaves a
\* loop (by the LoopOpen skip, by falling through the LoopClose or by a
\* hot-loop fast path) the current cell tape[cc] is 0.
C24_LoopLeftOnZero == [][LeavesLoop => cells'[cc'] = 0]_vars

\* C24 amended: in mode E, for a well-linked IR, whenever control leaves a
\* loop the current cell is 0, unless the loop is left by the fast path of a
\* scan that ran off the tape and was clamped at the boundary.
C24_LoopLeftOnZeroUnlessClamped ==
    [][LeavesLoop => (cells'[cc'] = 0 \/ ClampedScan)]_vars

\* the move loop [->+<] of HotMove was left by its fast path at the tenth
\* arrival: the cursor is on cell 1, which the fast path set to 0, and the
\* value went to cell 2
C24_Witness ==
    /\ mode = "jit" /\ phase = "run" /\ src = HotMove
    /\ WellLinked(prog)
    /\ pc >= 1 /\ pc <= Len(prog)
    /\ At(prog, pc - 1).type = "CLOSE"
    /\ LET open == At(prog, pc - 1).operand IN
       /\ analyzeLoop(prog, open).type = "move"
       /\ open \in DOMAIN hotCount /\ hotCount[open] = HOT_THRESHOLD
    /\ cc = 1 /\ cells[1] = 0 /\ cells[2] # 0

\* ================================================================ C25
\* the loop body matches a rule of the loop rewriter: the Zero rule or the
\* balanced-decrement rule (tryOptimizeLoop returns an op), or the Scan rule
MatchesRewriteRule(body) == tryOptimizeLoop(body) # NoOp \/ IsScanBody(body)

\* the signed stride of a scan body: the operand of its single move
StrideOf(body) ==
    IF body[1].type = "RIGHT" THEN body[1].operand ELSE -body[1].operand

\* C25: analyzeLoop returns a recognized form for a loop body if and only if
\* the body matches the Zero rule, the balanced-decrement rule or the Scan
\* rule, and a single-move body with operand n is scanned with stride n.
C25_RecognizerMatchesAnalyzer ==
    (Built /\ mode = "jit" /\ IsBareLoop(src))
        => LET body == LoopBody(prog, 0) IN
           /\ (analyzeLoop(prog, 0) # NoLoop) <=> MatchesRewriteRule(body)
           /\ IsScanBody(body) => analyzeLoop(prog, 0).offset = StrideOf(body)

\* ================================================================ C26
\* ------------------------------------------- JITCompiler of jit.ts (blocks)
\* analyzeBlock: the while loop from endPc with the set loopNestLevel; the
\* final endPc
RECURSIVE analyzeBlockFrom(_, _, _, _)
analyzeBlockFrom(ir, startPc, endPc, loopNestLevel) ==
    IF endPc < Len(ir)
    THEN LET op == At(ir, endPc)
             level == IF op.type = "OPEN" THEN loopNestLevel \cup {endPc}
                      ELSE IF op.type = "CLOSE" THEN loopNestLevel \ {op.operand}
                      ELSE loopNestLevel
         IN IF level = {} /\ endPc > startPc THEN endPc
            ELSE analyzeBlockFrom(ir, startPc, endPc + 1, level)
    ELSE endPc
analyzeBlock(ir, startPc) == analyzeBlockFrom(ir, startPc, startPc, {})

\* what a code generator returns: the statements, or the TypeError it throws
Generated(stmts) == [threw |-> FALSE, code |-> stmts]
Threw == [threw |-> TRUE, code |-> << >>]

\* the statements of the multiply pattern: one "+= value * factor" per entry
\* of memChanges with offset and factor both non-zero, in insertion order
PatternTargets(memChanges) ==
    LET nz == SelectSeq(memChanges, LAMBDA e : e[1] # 0 /\ e[2] # 0) IN
    [j \in 1..Len(nz) |-> Stmt("addmul", nz[j][1], nz[j][2])]

\* analyzePattern: the statements of the recognized pattern, none for null;
\* ops[0].type throws when the body is empty
analyzePattern(ir, startPc, endPc) ==
    LET ops == SubSeq(ir, startPc + 2, endPc) IN
    IF Len(ops) = 1 /\ ops[1].type = "SUB" /\ ops[1].operand = 1
    THEN Generated(<< Stmt("zero", 0, 0) >>)
    ELSE IF Len(ops) = 4
            /\ ops[1].type = "SUB" /\ ops[2].type = "RIGHT"
            /\ ops[3].type = "ADD" /\ ops[4].type = "LEFT"
    THEN Generated(<< Stmt("load", 0, 0), Stmt("addmul", ops[2].operand, 1),
                      Stmt("zero", 0, 0) >>)
    ELSE IF Len(ops) = 0 THEN Threw
    ELSE IF ops[1].type = "SUB" /\ ops[1].operand = 1
    THEN LET w == WalkBody(ops, 1, 0, << >>) IN
         IF w.isValid /\ w.pos = 0 /\ Len(w.memChanges) > 0
         THEN Generated(<< Stmt("load", 0, 0) >> \o PatternTargets(w.memChanges)
                        \o << Stmt("zero", 0, 0) >>)
         ELSE Generated(<< >>)
    ELSE Generated(<< >>)

\* generateOpCode: the statement of one op, the empty string for a bracket
generateOpCode(op) ==
    CASE op.type = "LEFT" -> Stmt("movecc", 0, -op.operand)
      [] op.type = "RIGHT" -> Stmt("movecc", 0, op.operand)
      [] op.type = "ADD" -> Stmt("addc", 0, op.operand)
      [] op.type = "SUB" -> Stmt("addc", 0, -op.operand)
      [] op.type = "OUTPUT" -> Stmt("out", 0, 0)
      [] op.type = "INPUT" -> Stmt("in", 0, 0)
      [] OTHER -> Stmt("nop", 0, 0)

\* generateOptimizedCode: the statements between "while (cells[localCc] !== 0) {"
\* and "}": the pattern, or one statement per op of startPc+1 .. endPc-1
generateOptimizedCode(ir, startPc, endPc) ==
    LET pattern == analyzePattern(ir, startPc, endPc) IN
    IF pattern.threw THEN Threw
    ELSE IF pattern.code # << >> THEN pattern
    ELSE Generated([j \in 1..(endPc - startPc - 1) |-> generateOpCode(At(ir, startPc + j))])

\* one statement of the routine on [cells, cc (localCc), value]
BlockStmt(s, st) ==
    CASE s.k = "zero" -> [st EXCEPT !.cells = Store(st.cells, st.cc, << 0 >>)]
      [] s.k = "load" -> [st EXCEPT !.value = Load(st.cells, st.cc)]
      [] s.k = "addmul" ->
           [st EXCEPT !.cells =
               Store(st.cells, st.cc + s.off,
                     NumAdd(Load(st.cells, st.cc + s.off), NumMul(st.value, << s.val >>)))]
      [] s.k = "movecc" -> [st EXCEPT !.cc = st.cc + s.val]
      [] s.k = "addc" ->
           [st EXCEPT !.cells =
               Store(st.cells, st.cc,
                     IF Load(st.cells, st.cc) = NaN THEN << 0 >>
                     ELSE << And255(st.cells[st.cc] + s.val) >>)]
      [] OTHER -> st

RECURSIVE BlockBody(_, _, _)
BlockBody(body, j, st) ==
    IF j > Len(body) THEN st ELSE BlockBody(body, j + 1, BlockStmt(body[j], st))

\* the routine: let localCc = cc; while (cells[localCc] !== 0) { body }
\* return [localCc, endPc + 1]. Yields << <<cells, localCc>> >>, or << >> when
\* the while loop is still running after fuel iterations
MaxBlockLen == 3
BlockFuel == 8
RECURSIVE BlockWhile(_, _, _, _)
BlockWhile(body, tape, localCc, fuel) ==
    IF Load(tape, localCc) = << 0 >> THEN << << tape, localCc >> >>
    ELSE IF fuel = 0 THEN << >>
    ELSE LET st == BlockBody(body, 1, [cells |-> tape, cc |-> localCc, value |-> NaN]) IN
         BlockWhile(body, st.cells, st.cc, fuel - 1)

\* ------------------------------------------- interpreting the loop (mode E)
\* Interpreter.run from pc = p until pc = stop, without hot dispatch. Yields
\* << <<cells, cc>> >>, or << >> when stop is not reached within fuel steps
RECURSIVE Interpret(_, _, _, _, _)
Interpret(ir, p, stop, st, fuel) ==
    IF p = stop THEN << st >>
    ELSE IF fuel = 0 \/ p >= Len(ir) THEN << >>
    ELSE LET op == At(ir, p) IN
         IF op.type = "OPEN"
         THEN Interpret(ir, (IF st[1][st[2]] = 0 THEN op.operand ELSE p) + 1, stop, st, fuel - 1)
         ELSE IF op.type = "CLOSE"
         THEN Interpret(ir, (IF st[1][st[2]] # 0 THEN op.operand ELSE p) + 1, stop, st, fuel - 1)
         ELSE Interpret(ir, p + 1, stop, NormalOp(op, st), fuel - 1)
InterpretFuel == BlockFuel * (MaxBlockLen + 2)

\* ------------------------------------------------------------- the inputs
\* prefixes that put values on cells 0 and 1 and leave the cursor on cell 0
BlockPrefixes == {Src(<< >>), Src(<<"+">>), Src(<<"+", "+">>),
                  Src(<<">", "+", "<">>), Src(<<"+", ">", "+", "+", "<">>),
                  Src(<<"+", "+", ">", "+", "<">>)}
\* [ body ] for the short bodies over < > + -, the empty loop, loops around
\* loops, and the loops of the curated hot sources
BlockLoops ==
    {<< CharLB >> \o b \o << CharRB >> :
        b \in SeqsUpTo({CharLT, CharGT, CharADD, CharSUB}, MaxBlockLen)}
    \cup {Src(<<"[", "-", ">", "+", "<", "]">>),
          Src(<<"[", "-", ">", "+", "+", "<", "]">>),
          Src(<<"[", "-", "-", ">", "+", "<", "]">>),
          Src(<<"[", ">", "[", "-", "]", "<", "-", "]">>),
          Src(<<"[", "[", "-", "]", "]">>),
          Src(<<"[", "-", "[", ">", "+", "<", "-", "]", "]">>),
          Src(<<"[", "[", "]", "-", "]">>)}
BlockSources == {p \o l : p \in BlockPrefixes, l \in BlockLoops} \cup {HotClear}

BlockInit ==
    /\ src \in BlockSources
    /\ input = << >>
    /\ Fresh("jit")

\* the ops of the block include no I/O op
NoIO(ir, startPc, endPc) ==
    \A j \in startPc..(endPc - 1) :
        j < Len(ir) => At(ir, j).type \notin {"OUTPUT", "INPUT"}

\* compileHotBlock(pc), then block.code(cells, cc): the tape is updated in
\* place, the cursor and pc are the pair the routine returns
RunBlock ==
    /\ JitAt("OPEN")
    /\ LET endPc == analyzeBlock(prog, pc)
           gen == generateOptimizedCode(prog, pc, endPc)
       IN /\ NoIO(prog, pc, endPc)
          /\ ~gen.threw
          /\ LET r == BlockWhile(gen.code, cells, cc, BlockFuel) IN
             /\ r # << >>
             /\ cells' = r[1][1]
             /\ cc' = r[1][2]
          /\ pc' = endPc + 1
    /\ JitFrame /\ UNCHANGED <<hotCount, out, inp>>

\* compileHotBlock(pc) throws: analyzePattern reads ops[0].type of an empty body
BlockThrows ==
    /\ JitAt("OPEN")
    /\ generateOptimizedCode(prog, pc, analyzeBlock(prog, pc)).threw
    /\ phase' = "error"
    /\ results' = Append(results, Outcome("error"))
    /\ UNCHANGED <<src, input, mode, prog, code, pc, cc, cells, tmp, hotCount, out, inp,
                   moves, lcur>>

BlockNext ==
    \/ BuildJit \/ RunHot \/ StepOpen \/ StepClose \/ StepLeft \/ StepRight
    \/ StepAdd \/ StepSub \/ RunExit
    \/ RunBlock \/ BlockThrows

BlockSpec == BlockInit /\ [][BlockNext]_vars

\* a step at a LoopOpen that is not an interpreter step (the interpreter counts
\* every arrival): the block compiler has been called for this loop
BlockCompiled == JitAt("OPEN") /\ WellLinked(prog) /\ hotCount' = hotCount

\* C26: for a well-linked IR and a LoopOpen at startPc, the block compiler of
\* jit.ts finds endPc equal to the index of the matching LoopClose, and the
\* routine it generates, run on (cells, cc), returns endPc + 1 and leaves the
\* tape and cursor that interpreting the loop from the same state leaves, also
\* when the body contains nested loops or is empty.
C26_BlockMatchesLoop ==
    [][BlockCompiled
         => /\ phase' = "run"
            /\ analyzeBlock(prog, pc) = At(prog, pc).operand
            /\ pc' = At(prog, pc).operand + 1
            /\ LET i == Interpret(prog, pc, At(prog, pc).operand + 1,
                                  << cells, cc >>, InterpretFuel)
               IN i # << >> => << cells', cc' >> = i[1]]_vars

====
